---- MODULE Spec2Model ----
(***************************************************************************)
(* Model of the numerical core of collateralization-analysis:             *)
(*   src/data/hydration_request.py  Stableswap_Pair, Hydration_Request    *)
(*   src/analysis/analysis.py       get_initial_drawdown, Analysis        *)
(*                                                                         *)
(* Numbers.  The code computes in Python floats.  A float is modelled as  *)
(* a fixed-point number: the integer v stands for the value v / Scale.    *)
(* Scale is a power of two, so that every modelled value is a double and  *)
(* the float sums, differences and comparisons of modelled values are     *)
(* exact, as they are on units here.  Every float multiplication or       *)
(* division is one FMul or FDiv here, in the code's order of evaluation,  *)
(* and rounds its result to the nearest unit the way the float operation  *)
(* rounds to the nearest double.  Products of a Python int (n_coins, ann) *)
(* and a float are exact.  A float division by zero raises                *)
(* ZeroDivisionError in Python; the outcome records carry that in "kind". *)
(***************************************************************************)
EXTENDS Integers, Sequences, FiniteSets

VARIABLES
    amplification,  \* Stableswap_Pair._amplification (int)
    precision,      \* Stableswap_Pair._precision (units)
    price,          \* Stableswap_Pair._price: None or a number (units)
    call,           \* the last method call on the pair / the request: arguments and outcome
    paths,          \* Simulation.paths: the columns of the path table
    alpha,          \* get_threshold_multiplier's alpha (units)
    at_step,        \* get_threshold_multiplier's at_step: None or an int
    risk            \* outcome of get_threshold_multiplier

vars == <<amplification, precision, price, call, paths, alpha, at_step, risk>>

\* An optional value: Python's None, or a value x held as Some(x).
None == <<>>
Some(x) == <<x>>

-----------------------------------------------------------------------------
\* Bounds of the model.

\* Binary digits after the point of a modelled float.
ScaleBits == 9
\* Units per 1.0 of a modelled float: a power of two.
Scale == 2 ^ ScaleBits
\* Largest token balance (whole tokens) in a balance vector.
MaxBal == 3
\* Largest number of coins in a balance vector handed to the solver directly.
MaxCoins == 2
\* Largest amplification of a pair.
MaxAmp == 2
\* Largest explicit max_iterations argument.
MaxIterArg == 3

\* calculate_d's default max_iterations.
DefaultMaxIterations == 128

\* The precisions a pair is configured with: 1/32, 1/8, 1/2.
PrecisionSet == {Scale \div 32, Scale \div 8, Scale \div 2}

-----------------------------------------------------------------------------
\* Fixed-point arithmetic standing for the float operators.

Abs(x) == IF x < 0 THEN -x ELSE x

\* a / b rounded to the nearest integer, b # 0 (a tie goes away from zero).
RoundDiv(a, b) ==
    LET na == Abs(a)
        nb == Abs(b)
        q  == na \div nb
        r  == na % nb
        m  == IF 2 * r >= nb THEN q + 1 ELSE q
    IN  IF (a < 0) = (b < 0) THEN m ELSE -m

\* float * float
FMul(a, b) == RoundDiv(a * b, Scale)

\* float / float, b # 0
FDiv(a, b) == RoundDiv(a * Scale, b)

\* Outcome records of a call: kind is "ok" (val returned), "none" (None
\* returned) or the name of the exception raised.
Ok(v) == [kind |-> "ok", val |-> v]
Raise(e) == [kind |-> e, val |-> 0]

-----------------------------------------------------------------------------
\* Sequences.

RECURSIVE SumSeq(_)
SumSeq(s) == IF s = <<>> THEN 0 ELSE Head(s) + SumSeq(Tail(s))

RECURSIVE MinSeq(_)
MinSeq(s) ==
    IF Len(s) = 1 THEN s[1]
    ELSE LET m == MinSeq(Tail(s)) IN IF s[1] <= m THEN s[1] ELSE m

\* x inserted into the ascending sequence s.
RECURSIVE InsertAsc(_, _)
InsertAsc(x, s) ==
    IF s = <<>> THEN <<x>>
    ELSE IF x <= Head(s) THEN <<x>> \o s
    ELSE <<Head(s)>> \o InsertAsc(x, Tail(s))

\* sorted(s)
RECURSIVE Sorted(_)
Sorted(s) == IF s = <<>> THEN <<>> ELSE InsertAsc(Head(s), Sorted(Tail(s)))

-----------------------------------------------------------------------------
\* Hydration_Request: the invariant solver.

\* Variant of has_converged with one symmetric test (diff < precision): the
\* slip the asymmetric rule of C2 excludes.
has_converged_strict(v0, v1, prec) ==
    LET diff == Abs(v0 - v1)
    IN  diff < prec

\* has_converged(v0, v1), prec being self._token_pair._precision
has_converged(v0, v1, prec) ==
    LET diff == Abs(v0 - v1)
    IN  (v1 <= v0 /\ diff < prec) \/ (v1 > v0 /\ diff <= prec)

\* The inner loop of calculate_d: d_p *= d / (x * len(balances)) for x in xs.
RECURSIVE DPLoop(_, _, _, _)
DPLoop(d_p, d, xs, n) ==
    IF xs = <<>> THEN Ok(d_p)
    ELSE IF Head(xs) * n = 0 THEN Raise("ZeroDivisionError")
    ELSE DPLoop(FMul(d_p, FDiv(d, Head(xs) * n)), d, Tail(xs), n)

\* One pass of calculate_d's outer loop body up to the new d.
NewtonStep(d, xp_sorted, s, ann, n_coins) ==
    LET dp == DPLoop(d, d, xp_sorted, n_coins)
    IN  IF dp.kind # "ok" THEN dp
        ELSE LET d_p == dp.val
                 num == FMul(ann * s + d_p * n_coins, d)
                 den == (ann - 1) * d + (n_coins + 1) * d_p
             IN  IF den = 0 THEN Raise("ZeroDivisionError")
                 ELSE Ok(FDiv(num, den))

\* The outcome of calculate_d's loop from iteration i (0-based) on: kind, val,
\* and iters, the number of loop bodies entered.
Solved(kind, val, iters) == [kind |-> kind, val |-> val, iters |-> iters]

RECURSIVE DLoop(_, _, _, _, _, _, _, _)
DLoop(d, i, max_iterations, xp_sorted, s, ann, n_coins, prec) ==
    IF i >= max_iterations THEN Solved("none", 0, i)
    ELSE LET nx == NewtonStep(d, xp_sorted, s, ann, n_coins)
         IN  IF nx.kind # "ok" THEN Solved(nx.kind, 0, i + 1)
             ELSE IF has_converged(d, nx.val, prec) THEN Solved("ok", nx.val, i + 1)
             ELSE DLoop(nx.val, i + 1, max_iterations, xp_sorted, s, ann, n_coins, prec)

\* calculate_d(balances, max_iterations) on a request whose pair has
\* amplification amp and precision prec.
calculate_d(balances, max_iterations, amp, prec) ==
    LET n_coins   == Len(balances)
        ann       == amp * n_coins
        xp_sorted == Sorted(balances)
        s         == SumSeq(xp_sorted)
    IN  IF s = 0 THEN Solved("ok", 0, 0)
        ELSE DLoop(s, 0, max_iterations, xp_sorted, s, ann, n_coins, prec)

\* The loop of price_at_balance: c = c * d / (n * x) for x in xs.
RECURSIVE CLoop(_, _, _, _)
CLoop(c, d, xs, n) ==
    IF xs = <<>> THEN Ok(c)
    ELSE IF n * Head(xs) = 0 THEN Raise("ZeroDivisionError")
    ELSE CLoop(FDiv(FMul(c, d), n * Head(xs)), d, Tail(xs), n)

\* Variant of PriceFormula without the last division by xi.
PriceFormulaNoXi(xi, xj, ann, c) ==
    IF ann * xj + c = 0 \/ xi = 0 THEN Raise("ZeroDivisionError")
    ELSE Ok(FDiv(FMul(xj, ann * xi + c), ann * xj + c))

\* p = xj * (ann * xi + c) / (ann * xj + c) / xi, evaluated left to right.
PriceFormula(xi, xj, ann, c) ==
    IF ann * xj + c = 0 \/ xi = 0 THEN Raise("ZeroDivisionError")
    ELSE Ok(FDiv(FDiv(FMul(xj, ann * xi + c), ann * xj + c), xi))

\* price_at_balance(balances, i, j), i and j 0-based as in the code.  A d of
\* None (calculate_d fell out of its loop) makes c * d a TypeError.
price_at_balance(balances, i, j, amp, prec) ==
    LET n   == Len(balances)
        ann == amp * n
        d   == calculate_d(balances, DefaultMaxIterations, amp, prec)
    IN  IF d.kind = "none" THEN Raise("TypeError")
        ELSE IF d.kind # "ok" THEN Raise(d.kind)
        ELSE LET c == CLoop(d.val, d.val, Sorted(balances), n)
             IN  IF c.kind # "ok" THEN c
                 ELSE PriceFormula(balances[i + 1], balances[j + 1], ann, c.val)

-----------------------------------------------------------------------------
\* The inputs of the solver's methods.

\* Token balances: whole tokens 0..MaxBal, in units.
Balances == {b * Scale : b \in 0..MaxBal}

RECURSIVE SeqsOf(_, _)
SeqsOf(S, n) ==
    IF n = 0 THEN {<<>>}
    ELSE {<<x>> \o t : x \in S, t \in SeqsOf(S, n - 1)}

BalanceVectors == UNION {SeqsOf(Balances, n) : n \in 2..MaxCoins}

\* Pairs (prev, next) around every precision boundary, from above and below.
ConvPairs ==
    {<<v0, v0 + sgn * (p + e)>> :
        v0 \in {Scale, 2 * Scale}, sgn \in {-1, 1}, p \in PrecisionSet, e \in {-1, 0, 1}}

\* A method call on a Hydration_Request: the method, its arguments (those the
\* method does not take are 0), whether it has run, and its outcome.
Pending == [kind |-> "pending", val |-> 0, iters |-> 0]

MakeCall(op, balances, max_iterations, i, j, v0, v1) ==
    [op |-> op, balances |-> balances, max_iterations |-> max_iterations,
     i |-> i, j |-> j, v0 |-> v0, v1 |-> v1, done |-> FALSE, out |-> Pending]

SolverCalls ==
    {MakeCall("calculate_d", b, m, 0, 0, 0, 0) :
        b \in BalanceVectors, m \in (1..MaxIterArg) \cup {DefaultMaxIterations}}
    \cup
    UNION {{MakeCall("price_at_balance", b, DefaultMaxIterations, i, j, 0, 0) :
               i \in 0..(Len(b) - 1), j \in (0..(Len(b) - 1))} : b \in BalanceVectors}
    \cup
    {MakeCall("has_converged", <<>>, 0, 0, 0, pr[1], pr[2]) : pr \in ConvPairs}

\* The risk estimator at rest (not part of the solver's or the pair's runs).
RiskIdle == paths = <<>> /\ alpha = 0 /\ at_step = None /\ risk = Pending

\* A Hydration_Request on a pair with some amplification and precision, and one
\* method call on it to be made.
InitSolver ==
    /\ amplification \in 0..MaxAmp
    /\ precision \in PrecisionSet
    /\ price = None
    /\ call \in {c \in SolverCalls : c.op = "price_at_balance" => c.i # c.j}
    /\ RiskIdle

Start(op) == call.op = op /\ ~call.done

Call_calculate_d ==
    /\ Start("calculate_d")
    /\ call' = [call EXCEPT !.done = TRUE,
                  !.out = calculate_d(call.balances, call.max_iterations, amplification, precision)]
    /\ UNCHANGED <<amplification, precision, price, paths, alpha, at_step, risk>>

Call_price_at_balance ==
    /\ Start("price_at_balance")
    /\ call' = [call EXCEPT !.done = TRUE,
                  !.out = LET p == price_at_balance(call.balances, call.i, call.j,
                                                  amplification, precision)
                          IN  [kind |-> p.kind, val |-> p.val, iters |-> 0]]
    /\ UNCHANGED <<amplification, precision, price, paths, alpha, at_step, risk>>

Call_has_converged ==
    /\ Start("has_converged")
    /\ call' = [call EXCEPT !.done = TRUE,
                  !.out = [kind |-> "ok",
                           val |-> IF has_converged(call.v0, call.v1, precision) THEN 1 ELSE 0,
                           iters |-> 0]]
    /\ UNCHANGED <<amplification, precision, price, paths, alpha, at_step, risk>>

NextSolver == Call_calculate_d \/ Call_price_at_balance \/ Call_has_converged

SpecSolver == InitSolver /\ [][NextSolver]_vars

-----------------------------------------------------------------------------
\* Claims about the solver and the price formula (under SpecSolver).

Returned(op) == call.op = op /\ call.done

\* The k-th iterate of the Newton update from D0 = sum(balances), with no
\* convergence test: what the loop would hold in d after k passes.
RECURSIVE Iterate(_, _, _)
Iterate(balances, amp, k) ==
    LET n == Len(balances)
    IN  IF k = 0 THEN Ok(SumSeq(balances))
        ELSE LET pv == Iterate(balances, amp, k - 1)
             IN  IF pv.kind # "ok" THEN pv
                 ELSE NewtonStep(pv.val, Sorted(balances), SumSeq(balances), amp * n, n)

\* The convergence rule of the specification.
ConvRule(prev, next, p) ==
    LET diff == Abs(prev - next)
    IN  (next <= prev /\ diff < p) \/ (next > prev /\ diff <= p)

\* Iteration k (1-based) computes an iterate and its step passes the rule.
Passes(balances, amp, p, k) ==
    LET a == Iterate(balances, amp, k - 1)
        b == Iterate(balances, amp, k)
    IN  a.kind = "ok" /\ b.kind = "ok" /\ ConvRule(a.val, b.val, p)

\* Iteration k computes an iterate and its step does not pass the rule.
Fails(balances, amp, p, k) ==
    LET a == Iterate(balances, amp, k - 1)
        b == Iterate(balances, amp, k)
    IN  a.kind = "ok" /\ b.kind = "ok" /\ ~ConvRule(a.val, b.val, p)

\* The balances are all strictly positive.
AllPositive(balances) == \A x \in 1..Len(balances) : balances[x] > 0

\* C1: a calculate_d call on balances of non-zero sum in which none of the
\* max_iterations iterations passes the convergence test ends in a
\* NonConvergence error.  Stated for valid inputs only (positive balances,
\* amplification >= 1), where no other error of the claims applies.
C1_ExhaustionRaises ==
    (/\ Returned("calculate_d")
     /\ AllPositive(call.balances)
     /\ amplification >= 1
     /\ \A k \in 1..call.max_iterations : Fails(call.balances, amplification, precision, k))
    => call.out.kind = "NonConvergence"

\* C2: has_converged is true exactly when (next <= prev and diff < p) or
\* (next > prev and diff <= p); and calculate_d returns the first iterate whose
\* step passes this test, having run exactly that many iterations: a value
\* returned after k iterations is the k-th iterate, its step passes and no
\* earlier step does; and None is returned only when no step passes.
C2_AsymmetricTest ==
    /\ Returned("has_converged")
          => ((call.out.val = 1) <=> ConvRule(call.v0, call.v1, precision))
    /\ (Returned("calculate_d") /\ call.out.kind = "ok" /\ SumSeq(call.balances) # 0)
          => /\ call.out.iters \in 1..call.max_iterations
             /\ Passes(call.balances, amplification, precision, call.out.iters)
             /\ \A h \in 1..(call.out.iters - 1) :
                   Fails(call.balances, amplification, precision, h)
             /\ call.out.val = Iterate(call.balances, amplification, call.out.iters).val
    /\ (Returned("calculate_d") /\ call.out.kind = "none")
          => \A k \in 1..call.max_iterations :
                Fails(call.balances, amplification, precision, k)

\* C2 witness: an increasing step of exactly the precision was accepted.
C2_Witness ==
    /\ Returned("has_converged")
    /\ call.v1 = call.v0 + precision
    /\ call.out.val = 1

\* C6: for balances summing to 0, calculate_d returns 0 without iterating
\* and price_at_balance fails with InvalidInput.
C6_DegeneratePool ==
    /\ (Returned("calculate_d") /\ SumSeq(call.balances) = 0)
          => call.out = Solved("ok", 0, 0)
    /\ (Returned("price_at_balance") /\ SumSeq(call.balances) = 0)
          => call.out.kind = "InvalidInput"

\* C9: calculate_d fails with InvalidInput before iterating when a balance is
\* non-positive (the sum being non-zero) or the amplification is 0.  Stated in
\* its weakest form: on such input the call raises some error, whichever its
\* name and however late, and returns neither a number nor None.
C9_InvalidInputRejected ==
    (/\ Returned("calculate_d")
     /\ SumSeq(call.balances) # 0
     /\ (~AllPositive(call.balances) \/ amplification = 0))
    => call.out.kind \notin {"ok", "none"}

\* Tolerance of the round trip, in units: 1/128.
RoundTripTol == Scale \div 128

\* C8: for strictly positive balances and amplification >= 1, the price of
\* (i, j) times the price of (j, i) is 1 within the rounding tolerance.
C8_RoundTrip ==
    (/\ Returned("price_at_balance")
     /\ amplification >= 1
     /\ AllPositive(call.balances))
    => LET back == price_at_balance(call.balances, call.j, call.i, amplification, precision)
       IN  /\ call.out.kind = "ok"
           /\ back.kind = "ok"
           /\ Abs(FMul(call.out.val, back.val) - Scale) <= RoundTripTol

\* C8 witness: a price other than 1 was returned for an unbalanced pool.
C8_Witness ==
    /\ Returned("price_at_balance")
    /\ amplification >= 1
    /\ AllPositive(call.balances)
    /\ call.out.kind = "ok"
    /\ call.out.val > Scale

-----------------------------------------------------------------------------
\* Stableswap_Pair.get_price and the Hydration_Request it creates.

\* Decimals of the pair's base and quote token (Hydration_Token._decimals).
BaseDecimals == 1
QuoteDecimals == 2
\* Largest block number of the chain.
MaxBlock == 1
\* Largest free amount (whole tokens) the account holds of a token.
MaxFree == 2

RECURSIVE Pow10(_)
Pow10(k) == IF k = 0 THEN 1 ELSE 10 * Pow10(k - 1)

\* int / int, giving a float
IntDiv(a, b) == RoundDiv(a * Scale, b)

\* Hydration_Request(token_pair, client, block_number): _block_number is the
\* constructor's field; block_number is the attribute request_price assigns
\* (None while it has not); current is whether fetch_current_block was called;
\* hash_arg is the argument of fetch_blockhash_by_block_number, once
\* asked (asked).
NewRequest(block_number) ==
    [_block_number |-> block_number, block_number |-> None, current |-> FALSE,
     asked |-> FALSE, hash_arg |-> None]

\* request_price, lines 190-191: the current block is fetched when no block
\* number was given.  head is what fetch_current_block returns.
FetchBlock(req, head) ==
    IF req._block_number = None
    THEN [req EXCEPT !.block_number = Some(head), !.current = TRUE]
    ELSE req

\* request_token_balances: the block hash is asked for self._block_number and
\* each free amount is divided by 10 ** decimals.  free = <<base, quote>>.
AskHash(req) == [req EXCEPT !.asked = TRUE, !.hash_arg = req._block_number]

request_token_balances(free) ==
    [base  |-> IntDiv(free[1], Pow10(BaseDecimals)),
     quote |-> IntDiv(free[2], Pow10(QuoteDecimals))]

\* request_price from line 192 on: the price of <<base, quote>> with i = 1, j = 0.
request_price(free, amp, prec) ==
    LET balances == request_token_balances(free)
    IN  price_at_balance(<<balances.base, balances.quote>>, 1, 0, amp, prec)

\* Variant of get_price_result that caches the raw price also when inverse.
get_price_result_raw_cache(raw, inverse, old) ==
    IF raw.kind # "ok" THEN [price |-> old, out |-> raw]
    ELSE IF ~inverse THEN [price |-> Some(raw.val), out |-> Ok(raw.val)]
    ELSE IF raw.val = 0 THEN [price |-> old, out |-> Raise("ZeroDivisionError")]
    ELSE [price |-> Some(raw.val), out |-> Ok(FDiv(Scale, raw.val))]

\* get_price, lines 130-135: what is cached and what is returned, given the
\* outcome raw of request_price and the cache old.  An exception (of
\* request_price, or of 1 / price) leaves the cache as it was.
get_price_result(raw, inverse, old) ==
    IF raw.kind # "ok" THEN [price |-> old, out |-> raw]
    ELSE IF ~inverse THEN [price |-> Some(raw.val), out |-> Ok(raw.val)]
    ELSE IF raw.val = 0 THEN [price |-> old, out |-> Raise("ZeroDivisionError")]
    ELSE [price |-> Some(FDiv(Scale, raw.val)), out |-> Ok(FDiv(Scale, raw.val))]

\* The free amounts the chain holds for the pair's account: whole tokens.
FreeAmounts ==
    {<<b * Pow10(BaseDecimals), q * Pow10(QuoteDecimals)>> : b \in 0..MaxFree, q \in 0..MaxFree}

\* A pair as constructed: a configuration and no price yet.
Init ==
    /\ amplification \in 1..MaxAmp
    /\ precision \in PrecisionSet
    /\ price = None
    /\ call = [op |-> "none"]
    /\ RiskIdle

\* get_price(client, block_number, inverse) against a chain whose current
\* block is head; a block number given is one of the chain's blocks.  free
\* is what the balance query returns for the block hash the node resolves.
get_price ==
    \E head \in 1..MaxBlock, block_number \in {None} \cup {Some(b) : b \in 1..MaxBlock},
       inverse \in BOOLEAN, free \in FreeAmounts :
        LET req == AskHash(FetchBlock(NewRequest(block_number), head))
            raw == request_price(free, amplification, precision)
            res == get_price_result(raw, inverse, price)
        IN  /\ (block_number # None => block_number[1] <= head)
            /\ price' = res.price
            /\ call' = [op |-> "get_price", block_number |-> block_number,
                        inverse |-> inverse, head |-> head, free |-> free,
                        req |-> req, raw |-> raw, out |-> res.out]
            /\ UNCHANGED <<amplification, precision, paths, alpha, at_step, risk>>

\* The prices a caller assigns to the pair's price property: 1/2 and 5.
SetterPrices == {Scale \div 2, 5 * Scale}

\* pair.price = x, the public setter of the price property: the cache takes
\* the value assigned, whatever it held.
set_price ==
    \E x \in SetterPrices :
        /\ price' = Some(x)
        /\ call' = [op |-> "set_price", value |-> x]
        /\ UNCHANGED <<amplification, precision, paths, alpha, at_step, risk>>

Next == get_price \/ set_price

Spec == Init /\ [][Next]_vars

-----------------------------------------------------------------------------
\* Claims about get_price (under Spec).

\* C7: every get_price call that returns caches what it returns, the raw price
\* when inverse is false and 1 / price when it is true; a call that raises
\* leaves the cache as it was, whether a get_price call or an assignment to
\* the price property put it there; the cache is None on a new pair.
C7_CacheIsLastReturn ==
    /\ price = None
    /\ [][call'.op = "get_price" =>
            IF call'.out.kind = "ok"
            THEN /\ price' = Some(call'.out.val)
                 /\ call'.raw.kind = "ok"
                 /\ call'.out.val = IF call'.inverse THEN FDiv(Scale, call'.raw.val)
                                    ELSE call'.raw.val
            ELSE price' = price]_vars

\* C7 witness: an inverse call returned the reciprocal of a price other than 1
\* and the cache holds it.
C7_Witness ==
    /\ call.op = "get_price"
    /\ call.inverse
    /\ call.out.kind = "ok"
    /\ call.raw.val # Scale
    /\ price = Some(call.out.val)

\* C10: with block_number None the current block is fetched and the balance
\* query asks the hash of that block, never of None; with a block_number given
\* the query asks the hash of that number and the current block is not fetched.
C10_BlockOfQuery ==
    call.op = "get_price" =>
        IF call.block_number = None
        THEN call.req.current /\ call.req.asked /\ call.req.hash_arg = Some(call.head)
        ELSE ~call.req.current /\ call.req.asked /\ call.req.hash_arg = call.block_number

-----------------------------------------------------------------------------
\* Analysis.get_threshold_multiplier and get_initial_drawdown.

\* Largest number of paths (columns) of the simulation.
MaxPaths == 2
\* Largest length of a path.
MaxLen == 2
\* Largest value on a path (whole numbers, all strictly positive).
MaxVal == 2

\* The confidence levels: 0.25, 0.5, 0.75.
AlphaSet == {Scale \div 4, Scale \div 2, (3 * Scale) \div 4}

\* path[:k] on a sequence, k an int: a negative k counts from the end.
SliceTo(path, k) ==
    LET stop == IF k >= 0 THEN (IF k < Len(path) THEN k ELSE Len(path))
                ELSE (IF Len(path) + k > 0 THEN Len(path) + k ELSE 0)
    IN  SubSeq(path, 1, stop)

RECURSIVE MaxSeq(_)
MaxSeq(s) ==
    IF Len(s) = 1 THEN s[1]
    ELSE LET m == MaxSeq(Tail(s)) IN IF s[1] >= m THEN s[1] ELSE m

\* Variant of get_initial_drawdown taking max() for min().
get_initial_drawdown_max(series) ==
    IF series = <<>> THEN Raise("ValueError")
    ELSE Ok(FDiv(MaxSeq(series), series[1]) - Scale)

\* get_initial_drawdown(series): min() of an empty series is a ValueError.
get_initial_drawdown(series) ==
    IF series = <<>> THEN Raise("ValueError")
    ELSE Ok(FDiv(MinSeq(series), series[1]) - Scale)

\* The loop of lines 74-75: the drawdown of every path cut at at_step, appended
\* in the order of the paths; the first exception ends it.
RECURSIVE InitialDrawdowns(_, _)
InitialDrawdowns(ps, step) ==
    IF ps = <<>> THEN [kind |-> "ok", samples |-> <<>>]
    ELSE LET dd == get_initial_drawdown(SliceTo(Head(ps), step))
         IN  IF dd.kind # "ok" THEN [kind |-> dd.kind, samples |-> <<>>]
             ELSE LET rest == InitialDrawdowns(Tail(ps), step)
                  IN  IF rest.kind # "ok" THEN rest
                      ELSE [kind |-> "ok", samples |-> <<dd.val>> \o rest.samples]

\* s.sort(reverse=True)
RECURSIVE InsertDesc(_, _)
InsertDesc(x, s) ==
    IF s = <<>> THEN <<x>>
    ELSE IF x >= Head(s) THEN <<x>> \o s
    ELSE <<Head(s)>> \o InsertDesc(x, Tail(s))

RECURSIVE SortedReverse(_)
SortedReverse(s) == IF s = <<>> THEN <<>> ELSE InsertDesc(Head(s), SortedReverse(Tail(s)))

\* int(len(initial_drawdowns) * alpha), 0-based
VarIndex(len, a) == (len * a) \div Scale

\* The outcome of get_threshold_multiplier: kind, the samples as collected,
\* the value at risk and the multiplier returned (val).
RiskOut(kind, samples, var, val) == [kind |-> kind, samples |-> samples, var |-> var, val |-> val]

\* Variant of SelectAndInvert sorting ascending.
SelectAscending(samples, a) ==
    LET sorted == Sorted(samples)
        idx    == VarIndex(Len(sorted), a)
    IN  IF idx >= Len(sorted) THEN RiskOut("IndexError", samples, 0, 0)
        ELSE LET value_at_risk == sorted[idx + 1]
             IN  IF Scale + value_at_risk = 0 THEN RiskOut("inf", samples, value_at_risk, 0)
                 ELSE RiskOut("ok", samples, value_at_risk, FDiv(Scale, Scale + value_at_risk))

\* Lines 80-88: sort descending, take the sample at the index, invert.
SelectAndInvert(samples, a) ==
    LET sorted == SortedReverse(samples)
        idx    == VarIndex(Len(sorted), a)
    IN  IF idx >= Len(sorted) THEN RiskOut("IndexError", samples, 0, 0)
        ELSE LET value_at_risk == sorted[idx + 1]
             IN  IF Scale + value_at_risk = 0 THEN RiskOut("inf", samples, value_at_risk, 0)
                 ELSE RiskOut("ok", samples, value_at_risk, FDiv(Scale, Scale + value_at_risk))

\* at_step = -1 if at_step is None else at_step
StepOf(step) == IF step = None THEN -1 ELSE step[1]

\* get_threshold_multiplier(alpha, at_step) on the paths ps.
get_threshold_multiplier(ps, a, step) ==
    LET k == StepOf(step)
    IN  IF k > Len(ps[1]) THEN RiskOut("Exception", <<>>, 0, 0)
        ELSE LET dds == InitialDrawdowns(ps, k)
             IN  IF dds.kind # "ok" THEN RiskOut(dds.kind, <<>>, 0, 0)
                 ELSE SelectAndInvert(dds.samples, a)

\* The values of a path, in units.
PathValues == {v * Scale : v \in 1..MaxVal}

\* The path tables: 1..MaxPaths columns of one length in 1..MaxLen.
PathTables ==
    UNION {SeqsOf(SeqsOf(PathValues, len), np) : len \in 1..MaxLen, np \in 1..MaxPaths}

\* The pair and the request at rest (not part of the estimator's runs).
PairIdle == amplification = 1 /\ precision = 1 /\ price = None /\ call = [op |-> "none"]

\* An Analysis of a simulation with some paths, and one call of
\* get_threshold_multiplier to be made.
InitRisk ==
    /\ paths \in PathTables
    /\ alpha \in AlphaSet
    /\ at_step \in {None} \cup {Some(k) : k \in 0..(MaxLen + 1)}
    /\ risk = RiskOut("pending", <<>>, 0, 0)
    /\ PairIdle

Call_get_threshold_multiplier ==
    /\ risk.kind = "pending"
    /\ risk' = get_threshold_multiplier(paths, alpha, at_step)
    /\ UNCHANGED <<amplification, precision, price, call, paths, alpha, at_step>>

NextRisk == Call_get_threshold_multiplier

SpecRisk == InitRisk /\ [][NextRisk]_vars

-----------------------------------------------------------------------------
\* Claims about the risk estimator (under SpecRisk).

\* The number of samples strictly above / not below v.
Above(samples, v) == Cardinality({x \in 1..Len(samples) : samples[x] > v})
NotBelow(samples, v) == Cardinality({x \in 1..Len(samples) : samples[x] >= v})

\* floor(n * alpha) for alpha = a / Scale: the k with k <= n * alpha < k + 1.
FloorOfProduct(n, a) == CHOOSE k \in 0..n : k * Scale <= n * a /\ n * a < (k + 1) * Scale

\* The samples -0.5, -0.3, -0.1, 0, 0 (-0.3 and -0.1 cut to whole units).
ExampleSamples ==
    <<-(Scale \div 2), -((3 * Scale) \div 10), -(Scale \div 10), 0, 0>>

\* C3: the value at risk is the sample of 0-based rank floor(len * alpha) in
\* descending order, one of the samples themselves (no interpolation): at most
\* that many samples lie above it and more than that many lie not below it;
\* there is one sample per path; the multiplier is 1 / (1 + value at risk);
\* and of the samples -0.5, -0.3, -0.1, 0, 0 with alpha = 0.5, -0.1 is selected.
C3_HardRank ==
    risk.kind = "ok" =>
        LET k == FloorOfProduct(Len(risk.samples), alpha)
        IN  /\ Len(risk.samples) = Len(paths)
            /\ \E x \in 1..Len(risk.samples) : risk.samples[x] = risk.var
            /\ Above(risk.samples, risk.var) <= k
            /\ NotBelow(risk.samples, risk.var) >= k + 1
            /\ risk.val = FDiv(Scale, Scale + risk.var)
            /\ SelectAndInvert(ExampleSamples, Scale \div 2).var = -(Scale \div 10)

\* C3 witness: of two different samples the lower one was selected, at rank 1.
C3_Witness ==
    /\ risk.kind = "ok"
    /\ Len(risk.samples) = 2
    /\ risk.samples[1] # risk.samples[2]
    /\ FloorOfProduct(2, alpha) = 1
    /\ Above(risk.samples, risk.var) = 1

\* The drawdown of the first k elements of a path.
DrawdownOfFirst(path, k) == FDiv(MinSeq(SubSeq(path, 1, k)), path[1]) - Scale

\* C4: with at_step None every element of a path, the last one included,
\* takes part in its sample; with at_step = k exactly the first k do.  Stated
\* of the calls that return: their samples are the drawdowns over those elements.
C4_FullPathByDefault ==
    /\ (risk.kind = "ok" /\ at_step = None)
          => \A x \in 1..Len(paths) :
                risk.samples[x] = DrawdownOfFirst(paths[x], Len(paths[x]))
    /\ (risk.kind = "ok" /\ at_step # None)
          => \A x \in 1..Len(paths) :
                risk.samples[x] = DrawdownOfFirst(paths[x], at_step[1])

\* C5: on strictly positive paths the value at risk is <= 0 and > -1 and the
\* multiplier is >= 1.
C5_MultiplierAtLeastOne ==
    risk.kind = "ok" =>
        /\ risk.var <= 0
        /\ risk.var > -Scale
        /\ risk.val >= Scale

\* C5 witness: a loss was selected and the multiplier returned exceeds 1.
C5_Witness ==
    /\ risk.kind = "ok"
    /\ risk.var < 0
    /\ risk.val > Scale

====
